---- MODULE Spec2Model ----
(***************************************************************************)
(* Model of gcore_point.py: the gdb command `gcore-point`, the breakpoint  *)
(* CoreDumpBP whose stop() arms a one-shot stop-event handler, and the     *)
(* one-shot handler GDBEventOneShot / GCoreOnStop that runs `gcore` and    *)
(* resumes the inferior.                                                   *)
(*                                                                         *)
(* Python strings are sequences of one-character strings.  gdb itself (the *)
(* breakpoint's hit counter, the stop-event registry, the inferior) is the *)
(* environment: it is modelled as far as the script observes it.           *)
(***************************************************************************)
EXTENDS Integers, Sequences, FiniteSets, TLC

\* ---------------------------------------------------------------- bounds
MaxBP == 2
MaxEvents == 3
MaxStops == 2
MaxNum == 12

\* The pids an inferior can have.
Pids == {7, 12}

\* ------------------------------------------------------------ strings
Range(s) == {s[i] : i \in 1..Len(s)}

\* The argument lines a session types after `gcore-point`: none, a spec, a
\* spec and a label, a spec followed by a space.
SessionLines == {<<>>, <<"a">>, <<"a", " ", "a">>, <<"a", " ">>}

\* The line the handlers' own specification creates its breakpoints with.
BinderLines == {<<"a">>}

\* The lines of the sessions that look at the order of the handlers: two
\* breakpoints at one location, told apart by the label.
OrderLines == {<<"a">>, <<"a", " ", "a">>}

\* str(int) as the f-string of CoreDumpBP.stop formats pid and hit_count.
DigitChars == <<"0", "1", "2", "3", "4", "5", "6", "7", "8", "9">>

RECURSIVE IntStr(_)
IntStr(n) ==
  IF n < 10 THEN <<DigitChars[n + 1]>>
  ELSE IntStr(n \div 10) \o <<DigitChars[(n % 10) + 1]>>

\* Python None and a present string, for the optional core_name.
None == [isNone |-> TRUE, str |-> <<>>]
Some(s) == [isNone |-> FALSE, str |-> s]

\* str.split(" "): cut at every single space, empty pieces kept.
RECURSIVE split(_)
split(s) ==
  IF \A i \in 1..Len(s) : s[i] # " " THEN <<s>>
  ELSE LET i == CHOOSE k \in 1..Len(s) : s[k] = " " /\ \A j \in 1..(k - 1) : s[j] # " "
       IN <<SubSeq(s, 1, i - 1)>> \o split(SubSeq(s, i + 1, Len(s)))

\* ------------------------------------------------------------ file name
core_name_prefix_Truthy(core_name) ==
  IF ~core_name.isNone /\ core_name.str # <<>> THEN core_name.str \o <<".">> ELSE <<>>

core_name_prefix(core_name) ==
  IF ~core_name.isNone THEN core_name.str \o <<".">> ELSE <<>>

core_file_name_OneBased(core_name, inferior_pid, hit_count) ==
  <<"c", "o", "r", "e", ".">> \o core_name_prefix(core_name)
    \o IntStr(inferior_pid) \o <<".">> \o IntStr(hit_count + 1)

core_file_name_NoDot(core_name, inferior_pid, hit_count) ==
  <<"c", "o", "r", "e", ".">> \o core_name_prefix(core_name)
    \o IntStr(inferior_pid) \o IntStr(hit_count)

core_file_name(core_name, inferior_pid, hit_count) ==
  <<"c", "o", "r", "e", ".">> \o core_name_prefix(core_name)
    \o IntStr(inferior_pid) \o <<".">> \o IntStr(hit_count)

\* The two commands the script hands to gdb.execute.
GcoreCmd(file_name) == <<"g", "c", "o", "r", "e", " ">> \o file_name
ContinueCmd == <<"c", "o", "n", "t", "i", "n", "u", "e">>

\* ------------------------------------------------------------ one-shot
\* What one invocation of a handler does, in order.
Execute(cmd) == [act |-> "execute", cmd |-> cmd]
Disconnect == [act |-> "disconnect", cmd |-> <<>>]

\* run_event: GCoreOnStop issues the gcore command; the hook of another
\* subclass issues no gdb command.
\* A GCoreOnStop whose _file_name was never assigned fails in the f-string,
\* before gdb.execute.
run_event(o) ==
  IF o.kind = "gcore" /\ o.hasName THEN <<Execute(GcoreCmd(o.file_name))>> ELSE <<>>

\* Whether run_event can return without raising: the hook of GCoreOnStop
\* reads self._file_name.
Runnable(o) == o.kind = "gcore" => o.hasName

OneShotCall_ContinueOnFailure(o, ok) ==
  [trace |-> run_event(o) \o <<Disconnect>>
               \o (IF o.continue THEN <<Execute(ContinueCmd)>> ELSE <<>>),
   raised |-> FALSE]

OneShotCall_ContinueFirst(o, ok) ==
  IF ok
  THEN [trace |-> run_event(o)
                    \o (IF o.continue THEN <<Execute(ContinueCmd)>> ELSE <<>>)
                    \o <<Disconnect>>,
        raised |-> FALSE]
  ELSE [trace |-> run_event(o), raised |-> TRUE]

OneShotCall_AlwaysContinue(o, ok) ==
  IF ok
  THEN [trace |-> run_event(o) \o <<Disconnect, Execute(ContinueCmd)>>,
        raised |-> FALSE]
  ELSE [trace |-> run_event(o), raised |-> TRUE]

\* GDBEventOneShot.__call__.  ok: run_event returned without raising.
\* When run_event raises, Python evaluates the expression of `except e:`;
\* the name e is bound nowhere, so a NameError leaves __call__ before the
\* disconnect and the continue are reached.
OneShotCall(o, ok) ==
  IF ok
  THEN [trace |-> run_event(o) \o <<Disconnect>>
                    \o (IF o.continue THEN <<Execute(ContinueCmd)>> ELSE <<>>),
        raised |-> FALSE]
  ELSE [trace |-> run_event(o), raised |-> TRUE]

\* ------------------------------------------------------------ state
VARIABLES
  breakpoints,  \* the CoreDumpBP instances, in creation order
  pid,          \* pid of gdb.selected_inferior(): one inferior per session
  registry,     \* gdb.events.stop: the connected handlers, in connect order
  oneshots,     \* every GDBEventOneShot constructed so far
  inferior,     \* "running", "stopping" (a stop() said stop) or "stopped"
  hitNow,       \* breakpoints whose stop() ran for the stop in progress
  dispatch,     \* handlers the current stop event has still to call
  stops,        \* number of stop events emitted
  last,         \* the last operation and what it did
  probe         \* inputs and results of core_file_name, for its own checks

vars == <<breakpoints, pid, registry, oneshots, inferior, hitNow, dispatch, stops, last, probe>>

NoOp ==
  [op |-> "none", arg |-> <<>>, error |-> FALSE, bp |-> 0, id |-> 0,
   ok |-> TRUE, raised |-> FALSE, trace |-> <<>>, ret |-> FALSE,
   inferiorBefore |-> "stopped",
   after |-> [hit_count |-> 0, core_name |-> None, pid |-> 0]]

NoProbe ==
  [core_name |-> None, pid1 |-> 0, hit1 |-> 0, pid2 |-> 0, hit2 |-> 0,
   name1 |-> <<>>, name2 |-> <<>>, done |-> FALSE]

Init ==
  /\ probe = NoProbe
  /\ breakpoints = <<>>
  /\ pid \in Pids
  /\ registry = <<>>
  /\ oneshots = <<>>
  /\ inferior = "stopped"
  /\ hitNow = {}
  /\ dispatch = <<>>
  /\ stops = 0
  /\ last = NoOp

AtPrompt == inferior = "stopped" /\ dispatch = <<>>

\* ------------------------------------------------------------ gcore-point
InvokeResult_NoUsageCheck(arg) ==
  LET argv == split(arg)
  IN [error |-> FALSE, create |-> TRUE, spec |-> argv[1],
      core_name |-> IF Len(argv) > 1 THEN Some(argv[2]) ELSE None]

\* GcorePointCmd.invoke: what the command line asks for.
InvokeResult(arg) ==
  IF arg = <<>>
  THEN [error |-> TRUE, create |-> FALSE, spec |-> <<>>, core_name |-> None]
  ELSE LET argv == split(arg)
       IN [error |-> FALSE, create |-> TRUE, spec |-> argv[1],
           core_name |-> IF Len(argv) > 1 THEN Some(argv[2]) ELSE None]

\* CoreDumpBP.__init__: a new breakpoint, never hit.
CoreDumpBP(spec, core_name) ==
  [spec |-> spec, core_name |-> core_name, hit_count |-> 0]

Invoke(arg) ==
  /\ AtPrompt
  /\ LET r == InvokeResult(arg)
     IN /\ r.create => Len(breakpoints) < MaxBP
        /\ breakpoints' = IF r.create
                          THEN Append(breakpoints, CoreDumpBP(r.spec, r.core_name))
                          ELSE breakpoints
        /\ last' = [NoOp EXCEPT !.op = "invoke", !.arg = arg, !.error = r.error,
                                !.bp = IF r.create THEN Len(breakpoints) + 1 ELSE 0]
  /\ UNCHANGED <<probe, pid, registry, oneshots, inferior, hitNow, dispatch, stops>>

\* The user resumes the inferior from the prompt.
UserContinue ==
  /\ AtPrompt
  /\ inferior' = "running"
  /\ last' = [NoOp EXCEPT !.op = "resume"]
  /\ UNCHANGED <<probe, breakpoints, pid, registry, oneshots, hitNow, dispatch, stops>>

\* ------------------------------------------------------------ breakpoint hit
\* GDBEventOneShot.__init__: a new handler of the stop registry.  It has no
\* file name; armPid, armHit and nth remember when it was made.
NewOneShot(kind, continue, bp) ==
  [kind |-> kind, continue |-> continue, file_name |-> <<>>, hasName |-> FALSE,
   bp |-> bp, armPid |-> pid,
   armHit |-> IF bp = 0 THEN 0 ELSE breakpoints[bp].hit_count,
   nth |-> Cardinality({i \in 1..Len(oneshots) : oneshots[i].bp = bp}),
   calls |-> 0, gcores |-> 0]

\* self._registry.connect(self): the handler goes to the end of the list.
connect_Dropped(reg, id) == reg

connect(reg, id) == Append(reg, id)

GCoreOnStop_NameUnset(file_name, bp) == NewOneShot("gcore", TRUE, bp)

\* GCoreOnStop.__init__: the base constructor, with continue_after_run left
\* at True, and then the assignment of _file_name.
GCoreOnStop(file_name, bp) ==
  [NewOneShot("gcore", TRUE, bp) EXCEPT !.file_name = file_name, !.hasName = TRUE]

stop_ReturnsContinue(bp, inferior_pid) ==
  [file_name |-> core_file_name(bp.core_name, inferior_pid, bp.hit_count),
   trace |-> <<>>,
   hit_count |-> bp.hit_count, core_name |-> bp.core_name, pid |-> inferior_pid,
   ret |-> FALSE]

stop_DumpsItself(bp, inferior_pid) ==
  [file_name |-> core_file_name(bp.core_name, inferior_pid, bp.hit_count),
   trace |-> <<Execute(GcoreCmd(core_file_name(bp.core_name, inferior_pid, bp.hit_count)))>>,
   hit_count |-> bp.hit_count, core_name |-> bp.core_name, pid |-> inferior_pid,
   ret |-> TRUE]

stop_CountsHit(bp, inferior_pid) ==
  [file_name |-> core_file_name(bp.core_name, inferior_pid, bp.hit_count),
   trace |-> <<>>,
   hit_count |-> bp.hit_count + 1, core_name |-> bp.core_name, pid |-> inferior_pid,
   ret |-> TRUE]

\* CoreDumpBP.stop on the breakpoint bp, with the pid of the selected
\* inferior: the file name it computes, the gdb commands it executes itself
\* (none), the hit counter, the label and the pid as it leaves them, and
\* the value it returns.
stop(bp, inferior_pid) ==
  [file_name |-> core_file_name(bp.core_name, inferior_pid, bp.hit_count),
   trace |-> <<>>,
   hit_count |-> bp.hit_count, core_name |-> bp.core_name, pid |-> inferior_pid,
   ret |-> TRUE]

\* gdb calls stop() of breakpoint b, which is hit; stop() constructs the
\* GCoreOnStop.  gdb counts the hit after stop() has said stop, and goes on
\* to stop the inferior.
Hit(b) ==
  /\ dispatch = <<>>
  /\ Len(oneshots) < MaxEvents
  /\ stops < MaxStops
  /\ \/ inferior = "running"
     \/ /\ inferior = "stopping"
        /\ b \notin hitNow
        /\ \E c \in hitNow : breakpoints[c].spec = breakpoints[b].spec
  /\ LET r == stop(breakpoints[b], pid)
         id == Len(oneshots) + 1
     IN /\ oneshots' = Append(oneshots, GCoreOnStop(r.file_name, b))
        /\ registry' = connect(registry, id)
        /\ last' = [NoOp EXCEPT !.op = "stop", !.bp = b, !.ret = r.ret, !.id = id,
                                !.trace = r.trace, !.inferiorBefore = inferior,
                                !.after = [hit_count |-> r.hit_count,
                                           core_name |-> r.core_name, pid |-> r.pid]]
        /\ breakpoints' = [breakpoints EXCEPT
                             ![b].core_name = r.core_name,
                             ![b].hit_count = IF r.ret THEN r.hit_count + 1 ELSE r.hit_count]
        /\ pid' = r.pid
        /\ inferior' = IF r.ret THEN "stopping" ELSE inferior
        /\ hitNow' = IF inferior = "stopping" THEN hitNow \cup {b}
                     ELSE IF r.ret THEN {b} ELSE {}
  /\ UNCHANGED <<probe, dispatch, stops>>

\* A one-shot of another subclass of GDBEventOneShot is constructed on the
\* stop registry, with either value of continue_after_run.
Bind(continue) ==
  /\ AtPrompt
  /\ Len(oneshots) < MaxEvents
  /\ oneshots' = Append(oneshots, NewOneShot("other", continue, 0))
  /\ registry' = connect(registry, Len(oneshots) + 1)
  /\ last' = [NoOp EXCEPT !.op = "bind", !.id = Len(oneshots) + 1]
  /\ UNCHANGED <<probe, breakpoints, pid, inferior, hitNow, dispatch, stops>>

\* ------------------------------------------------------------ stop event
\* gdb emits events.stop: after a breakpoint said stop, or for another
\* reason (a signal, the end of a step) while the inferior runs.  The
\* handlers connected at that moment are called in order.
StopEvent ==
  /\ dispatch = <<>>
  /\ inferior \in {"running", "stopping"}
  /\ stops < MaxStops
  /\ stops' = stops + 1
  /\ inferior' = "stopped"
  /\ hitNow' = {}
  /\ dispatch' = registry
  /\ last' = [NoOp EXCEPT !.op = "event"]
  /\ UNCHANGED <<probe, breakpoints, pid, registry, oneshots>>

Remove_All(s, x) == <<>>

\* registry.disconnect(self): the handler leaves the list.
Remove(s, x) == SelectSeq(s, LAMBDA y : y # x)

HasAct(trace, a) == \E i \in 1..Len(trace) : trace[i] = a

\* gdb calls a handler the event has still to call, the k-th of them; an
\* exception that leaves the handler is printed by gdb, which then goes on
\* with the other handlers.
CallAt(k, ok) ==
  /\ k \in 1..Len(dispatch)
  /\ LET id == dispatch[k]
         o == oneshots[id]
         r == OneShotCall(o, ok /\ Runnable(o))
     IN /\ registry' = IF HasAct(r.trace, Disconnect) THEN Remove(registry, id) ELSE registry
        /\ inferior' = IF HasAct(r.trace, Execute(ContinueCmd)) THEN "running" ELSE inferior
        /\ oneshots' = [oneshots EXCEPT
                          ![id].calls = @ + 1,
                          ![id].gcores = @ + Cardinality({i \in 1..Len(r.trace) :
                                                r.trace[i] = Execute(GcoreCmd(o.file_name))})]
        /\ last' = [NoOp EXCEPT !.op = "call", !.id = id, !.ok = ok /\ Runnable(o),
                                !.raised = r.raised, !.trace = r.trace,
                                !.inferiorBefore = inferior]
  /\ dispatch' = SubSeq(dispatch, 1, k - 1) \o SubSeq(dispatch, k + 1, Len(dispatch))
  /\ UNCHANGED <<probe, breakpoints, pid, hitNow, stops>>

\* gdb calls the handlers in the order in which they were connected.
Call(ok) == CallAt(1, ok)

\* The handlers of one event are called in any order.
CallAny(ok) == \E k \in 1..Len(dispatch) : CallAt(k, ok)

\* A session with the script as it is: every handler is a GCoreOnStop.
Next ==
  \/ \E arg \in SessionLines : Invoke(arg)
  \/ UserContinue
  \/ \E b \in 1..Len(breakpoints) : Hit(b)
  \/ StopEvent
  \/ \E ok \in BOOLEAN : Call(ok)

Spec == Init /\ [][Next]_vars

\* A session in which one-shots of other subclasses of GDBEventOneShot are
\* bound to the stop registry as well.
NextBinder ==
  \/ \E arg \in BinderLines : Invoke(arg)
  \/ UserContinue
  \/ \E b \in 1..Len(breakpoints) : Hit(b)
  \/ \E c \in BOOLEAN : Bind(c)
  \/ StopEvent
  \/ \E ok \in BOOLEAN : Call(ok)

SpecBinder == Init /\ [][NextBinder]_vars

\* A session in which the registry calls the handlers of one stop event in
\* any order.
NextOrder ==
  \/ \E arg \in OrderLines : Invoke(arg)
  \/ UserContinue
  \/ \E b \in 1..Len(breakpoints) : Hit(b)
  \/ StopEvent
  \/ \E ok \in BOOLEAN : CallAny(ok)

SpecOrder == Init /\ [][NextOrder]_vars

\* The file name on its own: two hits of one breakpoint, that is one label
\* and two pairs of pid and hit count, and the names stop() computes.
Labels == {None, Some(<<>>), Some(<<"a">>), Some(<<"1">>)}

InitName ==
  /\ probe \in {[NoProbe EXCEPT !.core_name = l, !.pid1 = p1, !.hit1 = h1,
                                 !.pid2 = p2, !.hit2 = h2] :
                  l \in Labels, p1 \in 0..MaxNum, h1 \in 0..MaxNum,
                  p2 \in 0..MaxNum, h2 \in 0..MaxNum}
  /\ breakpoints = <<>>
  /\ pid \in {7}
  /\ registry = <<>>
  /\ oneshots = <<>>
  /\ inferior = "stopped"
  /\ hitNow = {}
  /\ dispatch = <<>>
  /\ stops = 0
  /\ last = NoOp

FormatNames ==
  /\ ~probe.done
  /\ probe' = [probe EXCEPT
                 !.name1 = core_file_name(probe.core_name, probe.pid1, probe.hit1),
                 !.name2 = core_file_name(probe.core_name, probe.pid2, probe.hit2),
                 !.done = TRUE]
  /\ UNCHANGED <<breakpoints, pid, registry, oneshots, inferior, hitNow, dispatch, stops, last>>

NextName == FormatNames

SpecName == InitName /\ [][NextName]_vars

\* The stop event of a stop that a stop() asked for.
StopAfterHit == inferior = "stopping" /\ StopEvent

\* A session in which gdb does deliver the stop event after a stop() that
\* said stop, and calls every handler of an event it delivers.
NextLive ==
  \/ \E arg \in BinderLines : Invoke(arg)
  \/ UserContinue
  \/ \E b \in 1..Len(breakpoints) : Hit(b)
  \/ StopEvent
  \/ \E ok \in BOOLEAN : Call(ok)

SpecLive ==
  /\ Init /\ [][NextLive]_vars
  /\ WF_vars(StopAfterHit)
  /\ WF_vars(\E ok \in BOOLEAN : Call(ok))

\* ------------------------------------------------------------ helpers of the properties
GcoreShots == {i \in 1..Len(oneshots) : oneshots[i].kind = "gcore"}

IsDigit(c) == \E d \in 1..10 : DigitChars[d] = c
DigitValue(c) == (CHOOSE d \in 1..10 : DigitChars[d] = c) - 1

RECURSIVE DecValue(_)
DecValue(s) ==
  IF s = <<>> THEN 0
  ELSE DecValue(SubSeq(s, 1, Len(s) - 1)) * 10 + DigitValue(s[Len(s)])

\* s is the decimal numeral of n, without sign or leading zero.
IsDecimalOf(s, n) ==
  /\ Len(s) >= 1
  /\ \A i \in 1..Len(s) : IsDigit(s[i])
  /\ Len(s) > 1 => s[1] # "0"
  /\ DecValue(s) = n

Dots(s) == {k \in 1..Len(s) : s[k] = "."}
LastDot(s) == CHOOSE k \in Dots(s) : \A j \in Dots(s) : j <= k

\* The whitespace-separated tokens of a line.
RECURSIVE Tokens(_)
Tokens(s) ==
  IF s = <<>> THEN <<>>
  ELSE IF s[1] = " " THEN Tokens(Tail(s))
  ELSE LET n == CHOOSE k \in 1..Len(s) :
                  /\ \A j \in 1..k : s[j] # " "
                  /\ k < Len(s) => s[k + 1] = " "
       IN <<SubSeq(s, 1, n)>> \o Tokens(SubSeq(s, n + 1, Len(s)))

Positions(trace, a) == {i \in 1..Len(trace) : trace[i] = a}

FailedCall == last.op = "call" /\ ~last.ok

\* ------------------------------------------------------------ properties

\* C1: when run_event() fails, the one-shot is no longer connected to the
\* registry once its callback has finished.
C1_DisconnectedAfterFailure ==
  FailedCall => last.id \notin Range(registry)

\* C2: when run_event() fails, the callback issues no "continue", whatever
\* continue_after_run is, and leaves the inferior as it found it.
C2_NoContinueAfterFailure ==
  FailedCall =>
    /\ Positions(last.trace, Execute(ContinueCmd)) = {}
    /\ inferior = last.inferiorBefore

C2_Witness ==
  /\ FailedCall
  /\ oneshots[last.id].continue
  /\ inferior = "stopped"
  /\ \E i \in 1..Len(oneshots) : ~oneshots[i].continue /\ oneshots[i].calls > 0

\* C3: a one-shot is invoked at most once, whether run_event() succeeded or
\* failed.
C3_InvokedAtMostOnce ==
  \A i \in 1..Len(oneshots) : oneshots[i].calls <= 1

\* C4: when run_event() succeeds and continue_after_run is true, the callback
\* issues exactly one "continue", after the "gcore <file_name>" command and
\* after the one-shot has been disconnected.
C4_OneContinueAfterDump ==
  (last.op = "call" /\ last.ok /\ oneshots[last.id].continue) =>
    LET t == last.trace
        conts == Positions(t, Execute(ContinueCmd))
        dumps == Positions(t, Execute(GcoreCmd(oneshots[last.id].file_name)))
        discs == Positions(t, Disconnect)
    IN /\ Cardinality(conts) = 1
       /\ Cardinality(dumps) = 1
       /\ Cardinality(discs) = 1
       /\ \A c \in conts : (\A g \in dumps : g < c) /\ (\A d \in discs : d < c)
       /\ last.id \notin Range(registry)
       /\ inferior = "running"

C4_Witness ==
  /\ last.op = "call" /\ last.ok
  /\ oneshots[last.id].kind = "gcore"
  /\ oneshots[last.id].continue
  /\ Len(last.trace) = 3

\* C5: the N-th call of stop() on a breakpoint (N from 0) arms a dump whose
\* file name ends in the hit index N, whatever other breakpoints were hit in
\* between.
C5_HitIndexPerBreakpoint ==
  last.op = "stop" =>
    LET name == oneshots[last.id].file_name
    IN /\ oneshots[last.id].bp = last.bp
       /\ Dots(name) # {}
       /\ IsDecimalOf(SubSeq(name, LastDot(name) + 1, Len(name)), oneshots[last.id].nth)

C5_Witness ==
  /\ last.op = "stop"
  /\ oneshots[last.id].nth = 1
  /\ \E i, j \in GcoreShots :
       /\ i < j /\ j < last.id
       /\ oneshots[i].bp = last.bp
       /\ oneshots[j].bp # last.bp

\* C6: the file name stop() computes is "core.<label>.<pid>.<hitCount>" when
\* the breakpoint has a label (the empty string included) and
\* "core.<pid>.<hitCount>" when it has none, with the pid and the hit count
\* read at the hit.
C6_FileNameFormat ==
  last.op = "stop" =>
    LET name == oneshots[last.id].file_name
        label == breakpoints[last.bp].core_name
        pre == <<"c", "o", "r", "e", ".">>
                 \o (IF label.isNone THEN <<>> ELSE label.str \o <<".">>)
        rest == SubSeq(name, Len(pre) + 1, Len(name))
    IN /\ Len(name) > Len(pre)
       /\ SubSeq(name, 1, Len(pre)) = pre
       /\ Cardinality(Dots(rest)) = 1
       /\ IsDecimalOf(SubSeq(rest, 1, LastDot(rest) - 1), oneshots[last.id].armPid)
       /\ IsDecimalOf(SubSeq(rest, LastDot(rest) + 1, Len(rest)), oneshots[last.id].armHit)

C6_Witness ==
  /\ last.op = "stop"
  /\ breakpoints[last.bp].core_name = Some(<<>>)
  /\ oneshots[last.id].armPid >= 10
  /\ oneshots[last.id].armHit = 1
  /\ \E j \in GcoreShots : breakpoints[oneshots[j].bp].core_name = None

\* C7: gcore-point with the empty argument string ends in a usage error and
\* changes neither the breakpoints nor the stop registry.
C7_EmptyArgIsUsageError ==
  [][(last'.op = "invoke" /\ last'.arg = <<>>) =>
       /\ last'.error
       /\ breakpoints' = breakpoints
       /\ registry' = registry]_vars

C7_Witness ==
  /\ last.op = "invoke" /\ last.arg = <<>> /\ last.error
  /\ Len(breakpoints) > 0
  /\ registry # <<>>

\* C8: the "gcore" command of one hit is issued at most once over the run,
\* also when it fails and further stop events follow.
C8_DumpNeverRetried ==
  \A i \in GcoreShots : oneshots[i].gcores <= 1

\* C9: a failure of run_event() does not leave __call__: the callback
\* returns normally to the registry.
C9_FailureContained ==
  last.op = "call" => ~last.raised

\* C10: a non-empty line creates exactly one breakpoint, whose spec is the
\* first whitespace-separated token and whose label is the second one, or
\* None when there is no second token.
C10_ParsesTokens ==
  (last.op = "invoke" /\ last.arg # <<>>) =>
    LET toks == Tokens(last.arg)
    IN /\ ~last.error
       /\ last.bp = Len(breakpoints)
       /\ last.bp > 0
       /\ Len(toks) >= 1
       /\ breakpoints[last.bp].spec = toks[1]
       /\ breakpoints[last.bp].core_name =
            IF Len(toks) >= 2 THEN Some(toks[2]) ELSE None

\* The one-shots breakpoint b has armed that are still connected.
Pending(b) == {i \in Range(registry) : oneshots[i].bp = b}

\* No stop is in progress: no stop() has said stop without its stop event,
\* and the last stop event has called all its handlers.
StopHandled == dispatch = <<>> /\ inferior # "stopping"

\* C11: a breakpoint has at most one pending one-shot at any time, and none
\* once the stop event that follows a hit has been handled, whatever the
\* outcome of the dump.
C11_ArmedAgainAfterStop ==
  \A b \in 1..Len(breakpoints) :
    /\ Cardinality(Pending(b)) <= 1
    /\ StopHandled => Pending(b) = {}

\* C12: every call of stop() connects exactly one new one-shot, at the end
\* of the stop registry, executes no gdb command itself, leaves the one-shots
\* that exist as they are, and returns True.
C12_StopOnlyArms ==
  [][last'.op = "stop" =>
       /\ Len(oneshots') = Len(oneshots) + 1
       /\ \A i \in 1..Len(oneshots) : oneshots'[i] = oneshots[i]
       /\ last'.id = Len(oneshots')
       /\ registry' = Append(registry, last'.id)
       /\ last'.trace = <<>>
       /\ last'.ret = TRUE]_vars

C12_Witness ==
  /\ last.op = "stop"
  /\ last.ret
  /\ Len(registry) >= 2
  /\ registry[Len(registry)] = last.id
  /\ oneshots[last.id].calls = 0

\* C13: with one-shots of several breakpoints connected at once, a callback
\* disconnects at most its own one-shot and touches no other one: the others
\* stay connected, in their order, and unchanged; and the dump command it
\* issues carries its own file name, in whatever order the handlers run.
C13_NoCrossTalk ==
  [][last'.op = "call" =>
       LET id == last'.id
       IN /\ SelectSeq(registry', LAMBDA y : y # id) = SelectSeq(registry, LAMBDA y : y # id)
          /\ \A j \in 1..Len(oneshots) : j # id => oneshots'[j] = oneshots[j]
          /\ \A p \in 1..Len(last'.trace) :
               last'.trace[p].act = "execute" =>
                 last'.trace[p].cmd \in {GcoreCmd(oneshots[id].file_name), ContinueCmd}
          /\ Positions(last'.trace, Execute(GcoreCmd(oneshots[id].file_name))) = {1}]_vars

C13_Witness ==
  /\ last.op = "call"
  /\ last.id \notin Range(registry)
  /\ \E j \in Range(registry) :
       /\ j < last.id
       /\ oneshots[j].calls = 0
       /\ oneshots[j].bp # oneshots[last.id].bp
       /\ oneshots[j].file_name # oneshots[last.id].file_name

Armed(i) == Len(oneshots) >= i /\ oneshots[i].kind = "gcore"
Dumped(i) == Len(oneshots) >= i /\ oneshots[i].gcores >= 1

\* C14: when gdb delivers the stop event after each hit, every hit is
\* eventually followed by the "gcore" command with the file name computed at
\* that hit, no one-shot is left waiting once a stop has been handled, and a
\* dump that succeeds is followed by "continue".
C14_ArmedEventuallyDumps ==
  /\ \A i \in 1..MaxEvents : Armed(i) ~> Dumped(i)
  /\ [](StopHandled => \A i \in 1..Len(oneshots) : oneshots[i].calls >= 1)
  /\ []((last.op = "call" /\ last.ok) =>
          \E g, c \in 1..Len(last.trace) :
            /\ g < c
            /\ last.trace[g] = Execute(GcoreCmd(oneshots[last.id].file_name))
            /\ last.trace[c] = Execute(ContinueCmd))

C14_Witness ==
  /\ last.op = "call" /\ last.ok
  /\ Dumped(last.id)
  /\ \E j \in 1..Len(oneshots) : Armed(j) /\ oneshots[j].calls = 0

IsGcoreCmd(cmd) == Len(cmd) >= 6 /\ SubSeq(cmd, 1, 6) = <<"g", "c", "o", "r", "e", " ">>

\* C15: a "gcore" command is issued only by a handler that a stop event
\* calls, never by stop() itself, and its file name is the one computed by
\* an earlier hit whose stop() has returned to gdb.
C15_DumpOnlyInStopEvent ==
  \A p \in 1..Len(last.trace) :
    (last.trace[p].act = "execute" /\ IsGcoreCmd(last.trace[p].cmd)) =>
      /\ last.op = "call"
      /\ stops >= 1
      /\ \E i \in GcoreShots :
           /\ last.trace[p].cmd =
                GcoreCmd(core_file_name(breakpoints[oneshots[i].bp].core_name,
                                        oneshots[i].armPid, oneshots[i].armHit))
           /\ breakpoints[oneshots[i].bp].hit_count > oneshots[i].armHit

C15_Witness ==
  /\ last.op = "call"
  /\ ~last.ok
  /\ stops = 2
  /\ \E p \in 1..Len(last.trace) : IsGcoreCmd(last.trace[p].cmd)

\* C16: for one breakpoint (one label), two hits whose pairs of pid and hit
\* count differ get different file names.
C16_NamesInjective ==
  (probe.done /\ <<probe.pid1, probe.hit1>> # <<probe.pid2, probe.hit2>>) =>
    probe.name1 # probe.name2

C16_Witness ==
  /\ probe.done
  /\ probe.pid1 = 1 /\ probe.hit1 = 12
  /\ probe.pid2 = 11 /\ probe.hit2 = 2
  /\ probe.core_name = Some(<<"1">>)
  /\ probe.name1 # probe.name2

\* C17: stop() leaves the hit counter of its breakpoint, the label and the
\* pid of the inferior as it found them (gdb alone counts the hit, once),
\* leaves the other breakpoints alone, and changes the subscribers of the
\* stop registry only.
C17_StopReadsOnly ==
  [][last'.op = "stop" =>
       LET b == last'.bp
       IN /\ last'.after.hit_count = breakpoints[b].hit_count
          /\ last'.after.core_name = breakpoints[b].core_name
          /\ last'.after.pid = pid
          /\ pid' = pid
          /\ Len(breakpoints') = Len(breakpoints)
          /\ \A c \in 1..Len(breakpoints) : c # b => breakpoints'[c] = breakpoints[c]
          /\ breakpoints'[b] = [breakpoints[b] EXCEPT !.hit_count = @ + 1]
          /\ dispatch' = dispatch
          /\ Range(registry') = Range(registry) \cup {last'.id}]_vars

C17_Witness ==
  /\ last.op = "stop"
  /\ Len(breakpoints) = 2
  /\ breakpoints[last.bp].hit_count = 2
  /\ breakpoints[last.bp].core_name = Some(<<"a">>)
  /\ pid = 12

\* C18: every "gcore" command is issued while the inferior is stopped: after
\* the stop event and before any "continue" issued since, also when several
\* one-shots are called for one stop event.
C18_DumpWhileStopped ==
  (last.op = "call" /\ \E p \in 1..Len(last.trace) : IsGcoreCmd(last.trace[p].cmd)) =>
    last.inferiorBefore = "stopped"

\* C19: a one-shot made with continue_after_run false never issues
\* "continue", whether run_event() succeeds or fails, and leaves the inferior
\* as it found it; when run_event() succeeds the one-shot is disconnected.
C19_NoContinueWhenNotAsked ==
  (last.op = "call" /\ ~oneshots[last.id].continue) =>
    /\ Positions(last.trace, Execute(ContinueCmd)) = {}
    /\ inferior = last.inferiorBefore
    /\ last.ok => last.id \notin Range(registry)

C19_Witness ==
  /\ last.op = "call"
  /\ last.ok
  /\ ~oneshots[last.id].continue
  /\ oneshots[last.id].calls = 1
  /\ inferior = "stopped"
  /\ registry # <<>>

\* C20: no connected GCoreOnStop is without its file name, and whenever
\* run_event() of a GCoreOnStop runs, the name is the one the arming stop()
\* computed from the label, the pid and the hit count of that hit, and the
\* "gcore" command carries it.
C20_DumpCarriesArmedName ==
  /\ \A i \in Range(registry) : oneshots[i].kind = "gcore" => oneshots[i].hasName
  /\ (last.op = "call" /\ oneshots[last.id].kind = "gcore") =>
       LET o == oneshots[last.id]
           armed == core_file_name(breakpoints[o.bp].core_name, o.armPid, o.armHit)
       IN /\ o.hasName
          /\ o.file_name = armed
          /\ Len(last.trace) >= 1
          /\ last.trace[1] = Execute(GcoreCmd(armed))

C20_Witness ==
  /\ last.op = "call"
  /\ oneshots[last.id].kind = "gcore"
  /\ oneshots[last.id].armHit = 1
  /\ breakpoints[oneshots[last.id].bp].core_name = Some(<<"a">>)
  /\ \E j \in Range(registry) : j # last.id /\ oneshots[j].file_name # oneshots[last.id].file_name
====
